---- MODULE Spec2Model ----
(***************************************************************************)
(* Flow network (Graph, FordFulkerson, FlowNetwork) of Flow_project/src.   *)
(*                                                                         *)
(* A Python dict is modelled by the sequence of its values in insertion    *)
(* order (nodes, edges) or by a function (adjacency_list, which the code   *)
(* never iterates).  An edge id is a string; it is modelled as the         *)
(* sequence of its pieces, where "_forward" and "_backward" are pieces of  *)
(* their own and the other pieces contain neither, so that                 *)
(* str.endswith and str.replace can be computed as the code computes them. *)
(* The display name of a node takes part in no operation and is left out.  *)
(* Capacities and flows are integers.                                      *)
(***************************************************************************)
EXTENDS Integers, Sequences, FiniteSets, TLC

VARIABLES graph, residual_graph, pc, source_id, sink_id, max_flow,
          via_network, from_zero, ret, memo, stale_edits, call, run

vars == <<graph, residual_graph, pc, source_id, sink_id, max_flow,
          via_network, from_zero, ret, memo, stale_edits, call, run>>

\* ---------------------------------------------------------------- bounds
MaxCap == 2
MaxEdges == 2
MaxStaleEdits == 1
FlowCeil == 7

NodeIds == {"s", "a", "t"}
EdgeIds == {<<"x">>, <<"x", "_forward">>, <<"y">>}
EditNodeIds == {"s", "t"}
EditEdgeIds == {<<"x">>, <<"x", "_forward">>}

\* float('inf'), the start value of min_capacity
inf == 1000000

\* ------------------------------------------------------------- sequences
Range(seq) == {seq[i] : i \in DOMAIN seq}

RECURSIVE Reverse(_)
Reverse(seq) == IF seq = <<>> THEN <<>> ELSE Append(Reverse(Tail(seq)), Head(seq))

\* list.remove(x): drops the first occurrence of x
RECURSIVE ListRemove(_, _)
ListRemove(seq, x) ==
  IF seq = <<>> THEN <<>>
  ELSE IF Head(seq) = x THEN Tail(seq)
  ELSE <<Head(seq)>> \o ListRemove(Tail(seq), x)

Min(a, b) == IF a <= b THEN a ELSE b

\* The({F(v) : v \in {e}}) is F(e) with e evaluated once
The(S) == CHOOSE x \in S : TRUE

\* Python keeps integers exact; the model identifies every value at or
\* above FlowCeil (at or below -FlowCeil), which no flow within the
\* capacities reaches.
Clamp(v) == IF v > FlowCeil THEN FlowCeil ELSE IF v < -FlowCeil THEN -FlowCeil ELSE v

\* ----------------------------------------------------------------- Graph
Graph == [nodes |-> <<>>, edges |-> <<>>, adjacency_list |-> [n \in {} |-> <<>>]]

NodeIdSet(g) == {g.nodes[i].id : i \in DOMAIN g.nodes}
EdgeIdSet(g) == {g.edges[i].id : i \in DOMAIN g.edges}

\* Node.__post_init__ and Edge.__post_init__: the exception raised, "none"
\* when the object is constructed
\* Node.__post_init__ without the check of the id
Node__post_init__any_id(id) == "none"

Node__post_init__(id) == IF id = "" THEN "InvalidInputError" ELSE "none"

\* Edge.__post_init__ without the check of flow against capacity
Edge__post_init__no_flow_bound(id, capacity, flow) ==
  IF id = <<>> THEN "InvalidInputError"
  ELSE IF capacity < 0 THEN "InvalidInputError"
  ELSE IF flow < 0 THEN "InvalidInputError"
  ELSE "none"

Edge__post_init__(id, capacity, flow) ==
  IF id = <<>> THEN "InvalidInputError"
  ELSE IF capacity < 0 THEN "InvalidInputError"
  ELSE IF flow < 0 THEN "InvalidInputError"
  ELSE IF flow > capacity THEN "InvalidInputError"
  ELSE "none"

Edge(id, start_node_id, end_node_id, capacity, flow) ==
  [id |-> id, start_node_id |-> start_node_id, end_node_id |-> end_node_id,
   capacity |-> capacity, flow |-> flow]

residual_capacity(edge) == edge.capacity - edge.flow

get_node(g, node_id) == g.nodes[CHOOSE i \in DOMAIN g.nodes : g.nodes[i].id = node_id]
get_edge(g, edge_id) == g.edges[CHOOSE i \in DOMAIN g.edges : g.edges[i].id = edge_id]

\* The exception a call raises, "none" when it returns.  graph.py imports
\* only InvalidInputError, so its `raise NodeNotFoundError(...)` and
\* `raise EdgeNotFoundError(...)` raise NameError.
get_node_raises(g, node_id) == IF node_id \notin NodeIdSet(g) THEN "NameError" ELSE "none"
get_edge_raises(g, edge_id) == IF edge_id \notin EdgeIdSet(g) THEN "NameError" ELSE "none"

add_node_raises(g, node_id) ==
  IF node_id \in NodeIdSet(g) THEN "InvalidInputError"
  ELSE Node__post_init__(node_id)

add_node(g, node_id, is_source, is_sink) ==
  [g EXCEPT !.nodes = Append(g.nodes, [id |-> node_id, is_source |-> is_source, is_sink |-> is_sink]),
            !.adjacency_list = [n \in (DOMAIN g.adjacency_list) \cup {node_id} |->
                                  IF n = node_id THEN <<>> ELSE g.adjacency_list[n]]]

\* remove_edge that leaves the adjacency list as it is
remove_edge_keep_adjacency(g, edge_id) ==
  [g EXCEPT !.edges = SelectSeq(g.edges, LAMBDA e : e.id # edge_id)]

remove_edge(g, edge_id) ==
  LET edge == get_edge(g, edge_id)
      start == edge.start_node_id
  IN [g EXCEPT !.adjacency_list =
                  IF start \in DOMAIN g.adjacency_list /\ edge_id \in Range(g.adjacency_list[start])
                  THEN [g.adjacency_list EXCEPT ![start] = ListRemove(g.adjacency_list[start], edge_id)]
                  ELSE g.adjacency_list,
               !.edges = SelectSeq(g.edges, LAMBDA e : e.id # edge_id)]

RECURSIVE RemoveEdges(_, _)
RemoveEdges(g, edges_to_remove) ==
  IF edges_to_remove = <<>> THEN g
  ELSE RemoveEdges(remove_edge(g, Head(edges_to_remove)), Tail(edges_to_remove))

\* the list edges_to_remove of remove_node
edges_to_remove(g, node_id) ==
  LET incident == SelectSeq(g.edges, LAMBDA e : e.start_node_id = node_id \/ e.end_node_id = node_id)
  IN [i \in DOMAIN incident |-> incident[i].id]

\* remove_node that removes only the edges that start at the node
remove_node_outgoing_only(g, node_id) ==
  LET outgoing == SelectSeq(g.edges, LAMBDA e : e.start_node_id = node_id)
      g1 == RemoveEdges(g, [i \in DOMAIN outgoing |-> outgoing[i].id])
  IN [g1 EXCEPT !.nodes = SelectSeq(g1.nodes, LAMBDA n : n.id # node_id),
                !.adjacency_list = [n \in (DOMAIN g1.adjacency_list) \ {node_id} |-> g1.adjacency_list[n]]]

remove_node(g, node_id) ==
  LET g1 == RemoveEdges(g, edges_to_remove(g, node_id))
  IN [g1 EXCEPT !.nodes = SelectSeq(g1.nodes, LAMBDA n : n.id # node_id),
                !.adjacency_list = [n \in (DOMAIN g1.adjacency_list) \ {node_id} |-> g1.adjacency_list[n]]]

\* the raise of add_edge, the checks in the order of the code; the last is
\* the construction of the Edge
add_edge_raises(g, edge_id, start_node_id, end_node_id, capacity) ==
  IF edge_id \in EdgeIdSet(g) THEN "InvalidInputError"
  ELSE IF get_node_raises(g, start_node_id) # "none" THEN get_node_raises(g, start_node_id)
  ELSE IF get_node_raises(g, end_node_id) # "none" THEN get_node_raises(g, end_node_id)
  ELSE IF start_node_id = end_node_id THEN "InvalidInputError"
  ELSE Edge__post_init__(edge_id, capacity, 0)

\* add_edge that puts the id first in the adjacency list
add_edge_prepend(g, edge_id, start_node_id, end_node_id, capacity) ==
  [g EXCEPT !.edges = Append(g.edges, Edge(edge_id, start_node_id, end_node_id, capacity, 0)),
            !.adjacency_list = [g.adjacency_list EXCEPT ![start_node_id] = <<edge_id>> \o @]]

add_edge(g, edge_id, start_node_id, end_node_id, capacity) ==
  [g EXCEPT !.edges = Append(g.edges, Edge(edge_id, start_node_id, end_node_id, capacity, 0)),
            !.adjacency_list = [g.adjacency_list EXCEPT ![start_node_id] = Append(@, edge_id)]]

\* a call of Graph.add_node / Graph.add_edge: the graph it leaves and the
\* exception it raises ("none" when it returns)
add_node_call(g, node_id, is_source, is_sink) ==
  IF add_node_raises(g, node_id) # "none"
  THEN [graph |-> g, raises |-> add_node_raises(g, node_id)]
  ELSE [graph |-> add_node(g, node_id, is_source, is_sink), raises |-> "none"]

\* add_edge that stores the id in the adjacency list before it constructs the Edge
add_edge_call_adjacency_first(g, edge_id, start_node_id, end_node_id, capacity) ==
  IF add_edge_raises(g, edge_id, start_node_id, end_node_id, capacity) = "none"
  THEN [graph |-> add_edge(g, edge_id, start_node_id, end_node_id, capacity), raises |-> "none"]
  ELSE IF add_edge_raises(g, edge_id, start_node_id, end_node_id, 0) = "none"
  THEN [graph |-> [g EXCEPT !.adjacency_list[start_node_id] = Append(@, edge_id)],
        raises |-> add_edge_raises(g, edge_id, start_node_id, end_node_id, capacity)]
  ELSE [graph |-> g, raises |-> add_edge_raises(g, edge_id, start_node_id, end_node_id, capacity)]

add_edge_call(g, edge_id, start_node_id, end_node_id, capacity) ==
  IF add_edge_raises(g, edge_id, start_node_id, end_node_id, capacity) # "none"
  THEN [graph |-> g, raises |-> add_edge_raises(g, edge_id, start_node_id, end_node_id, capacity)]
  ELSE [graph |-> add_edge(g, edge_id, start_node_id, end_node_id, capacity), raises |-> "none"]

\* get_edges_from_node that lists the last edge added first
get_edges_from_node_reversed(g, node_id) ==
  IF node_id \notin DOMAIN g.adjacency_list THEN <<>>
  ELSE Reverse([i \in DOMAIN g.adjacency_list[node_id] |-> get_edge(g, g.adjacency_list[node_id][i])])

get_edges_from_node(g, node_id) ==
  IF node_id \notin DOMAIN g.adjacency_list THEN <<>>
  ELSE [i \in DOMAIN g.adjacency_list[node_id] |-> get_edge(g, g.adjacency_list[node_id][i])]

get_source_nodes(g) == SelectSeq(g.nodes, LAMBDA n : n.is_source)
get_sink_nodes(g) == SelectSeq(g.nodes, LAMBDA n : n.is_sink)

\* --------------------------------------------------------- FordFulkerson
\* str.endswith(suffix) and str.replace(old, '') on an id made of pieces
endswith(edge_id, suffix) == edge_id # <<>> /\ edge_id[Len(edge_id)] = suffix
replace(edge_id, old) == SelectSeq(edge_id, LAMBDA piece : piece # old)

RECURSIVE CopyNodes(_, _)
CopyNodes(rg, nodes) ==
  IF nodes = <<>> THEN rg
  ELSE CopyNodes(add_node(rg, Head(nodes).id, Head(nodes).is_source, Head(nodes).is_sink), Tail(nodes))

RECURSIVE AddArcs(_, _)
AddArcs(rg, edges) ==
  IF edges = <<>> THEN rg
  ELSE LET edge == Head(edges)
           r1 == IF residual_capacity(edge) > 0
                 THEN add_edge(rg, Append(edge.id, "_forward"), edge.start_node_id,
                               edge.end_node_id, residual_capacity(edge))
                 ELSE rg
           r2 == IF edge.flow > 0
                 THEN add_edge(r1, Append(edge.id, "_backward"), edge.end_node_id,
                               edge.start_node_id, edge.flow)
                 ELSE r1
       IN AddArcs(r2, Tail(edges))

\* _build_residual_graph that reads every flow as 0
_build_residual_graph_no_backward(rg, g) ==
  AddArcs(CopyNodes(rg, g.nodes), [i \in DOMAIN g.edges |-> [g.edges[i] EXCEPT !.flow = 0]])

\* rg is self.residual_graph as the caller left it (a fresh Graph())
_build_residual_graph(rg, g) == AddArcs(CopyNodes(rg, g.nodes), g.edges)

\* the rebuild that builds the residual graph as it was before any flow
\* was pushed
rebuild_before_updates(g) ==
  [graph |-> g, residual_graph |-> _build_residual_graph_no_backward(Graph, g)]

\* the rebuild that sets the flows it has read to 0
rebuild_drains_graph(g) ==
  [graph |-> [g EXCEPT !.edges = [i \in DOMAIN g.edges |-> [g.edges[i] EXCEPT !.flow = 0]]],
   residual_graph |-> _build_residual_graph(Graph, g)]

\* the first two statements of the loop of calculate_max_flow,
\* self.residual_graph = Graph() and self._build_residual_graph(): the graph
\* and the residual graph they leave
rebuild(g) == [graph |-> g, residual_graph |-> _build_residual_graph(Graph, g)]

\* the for loop of _bfs and of get_min_cut over the outgoing arcs of current_id
RECURSIVE ScanArcs(_, _, _, _, _)
ScanArcs(arcs, current_id, queue, visited, parent) ==
  IF arcs = <<>> THEN [queue |-> queue, visited |-> visited, parent |-> parent]
  ELSE LET edge == Head(arcs)
           neighbor_id == edge.end_node_id
       IN IF neighbor_id \notin visited /\ edge.capacity > 0
          THEN ScanArcs(Tail(arcs), current_id, Append(queue, neighbor_id),
                        visited \cup {neighbor_id},
                        (neighbor_id :> [prev |-> current_id, edge_id |-> edge.id]) @@ parent)
          ELSE ScanArcs(Tail(arcs), current_id, queue, visited, parent)

RECURSIVE BfsLoop(_, _, _, _, _)
BfsLoop(rg, sink, queue, visited, parent) ==
  IF queue = <<>> THEN [none |-> TRUE, parent |-> parent]
  ELSE LET current_id == Head(queue)
       IN IF current_id = sink THEN [none |-> FALSE, parent |-> parent]
          ELSE The({BfsLoop(rg, sink, r.queue, r.visited, r.parent) :
                      r \in {ScanArcs(get_edges_from_node(rg, current_id), current_id,
                                      Tail(queue), visited, parent)}})

\* _bfs that visits the outgoing arcs of every node last first
_bfs_last_arc_first(rg, source, sink) ==
  BfsLoop([rg EXCEPT !.adjacency_list = [n \in DOMAIN rg.adjacency_list |->
                                           Reverse(rg.adjacency_list[n])]],
          sink, <<source>>, {source}, [n \in {} |-> 0])

\* returns the parent dict, or None (none = TRUE)
_bfs(rg, source, sink) == BfsLoop(rg, sink, <<source>>, {source}, [n \in {} |-> 0])

RECURSIVE WalkBack(_, _, _, _, _, _)
WalkBack(rg, parent, source, current_id, min_capacity, path) ==
  IF current_id = source THEN [none |-> FALSE, min_capacity |-> min_capacity, path |-> Reverse(path)]
  ELSE LET edge == get_edge(rg, parent[current_id].edge_id)
       IN WalkBack(rg, parent, source, parent[current_id].prev,
                   Min(min_capacity, edge.capacity), Append(path, edge.id))

\* `if not parent` is true for None and for the empty dict
_find_augmenting_path(rg, source, sink) ==
  The({IF found.none \/ DOMAIN found.parent = {}
       THEN [none |-> TRUE, min_capacity |-> 0, path |-> <<>>]
       ELSE WalkBack(rg, found.parent, source, sink, inf, <<>>) :
         found \in {_bfs(rg, source, sink)}})

AddFlow(g, edge_id, delta) ==
  [g EXCEPT !.edges = [i \in DOMAIN g.edges |->
                         IF g.edges[i].id = edge_id
                         THEN [g.edges[i] EXCEPT !.flow = Clamp(@ + delta)]
                         ELSE g.edges[i]]]

\* the arcs of path are handled in order; a raise keeps the updates already made
RECURSIVE _update_flows(_, _, _)
_update_flows(g, path, flow) ==
  IF path = <<>> THEN [graph |-> g, raises |-> "none"]
  ELSE LET edge_id == Head(path)
       IN IF endswith(edge_id, "_forward")
          THEN LET original_edge_id == replace(edge_id, "_forward")
               IN IF get_edge_raises(g, original_edge_id) # "none"
                  THEN [graph |-> g, raises |-> get_edge_raises(g, original_edge_id)]
                  ELSE The({_update_flows(g1, Tail(path), flow) :
                              g1 \in {AddFlow(g, original_edge_id, flow)}})
          ELSE IF endswith(edge_id, "_backward")
          THEN LET original_edge_id == replace(edge_id, "_backward")
               IN IF get_edge_raises(g, original_edge_id) # "none"
                  THEN [graph |-> g, raises |-> get_edge_raises(g, original_edge_id)]
                  ELSE The({_update_flows(g1, Tail(path), flow) :
                              g1 \in {AddFlow(g, original_edge_id, 0 - flow)}})
          ELSE _update_flows(g, Tail(path), flow)

RECURSIVE CutLoop(_, _, _)
CutLoop(rg, queue, visited) ==
  IF queue = <<>> THEN visited
  ELSE The({CutLoop(rg, r.queue, r.visited) :
              r \in {ScanArcs(get_edges_from_node(rg, Head(queue)), Head(queue),
                              Tail(queue), visited, [n \in {} |-> 0])}})

\* get_min_cut with T = every node but the source
get_min_cut_all_but_source(rg, g, source) ==
  LET visited == CutLoop(rg, <<source>>, {source})
      rest == SelectSeq(g.nodes, LAMBDA n : n.id # source)
  IN [S |-> visited, T |-> [i \in DOMAIN rest |-> rest[i].id]]

\* get_min_cut that walks the edges of the graph instead of the residual arcs
get_min_cut_on_graph(rg, g, source) ==
  LET visited == CutLoop(g, <<source>>, {source})
      rest == SelectSeq(g.nodes, LAMBDA n : n.id \notin visited)
  IN [S |-> visited, T |-> [i \in DOMAIN rest |-> rest[i].id]]

\* get_min_cut that builds the residual graph of g before it walks it
get_min_cut_rebuilt(rg, g, source) ==
  LET visited == CutLoop(_build_residual_graph(Graph, g), <<source>>, {source})
      rest == SelectSeq(g.nodes, LAMBDA n : n.id \notin visited)
  IN [S |-> visited, T |-> [i \in DOMAIN rest |-> rest[i].id]]

\* S is list(visited) of a set, whose order is not defined: S is a set here
get_min_cut(rg, g, source) ==
  LET visited == CutLoop(rg, <<source>>, {source})
      rest == SelectSeq(g.nodes, LAMBDA n : n.id \notin visited)
  IN [S |-> visited, T |-> [i \in DOMAIN rest |-> rest[i].id]]

\* the checks of calculate_max_flow without the check of the is_sink flag
calculate_max_flow_raises_no_sink_check(g, source, sink) ==
  IF source \notin NodeIdSet(g) THEN "NameError"
  ELSE IF sink \notin NodeIdSet(g) THEN "NameError"
  ELSE IF source = sink THEN "NetworkNotValidError"
  ELSE IF ~get_node(g, source).is_source THEN "NetworkNotValidError"
  ELSE "none"

\* the checks of FordFulkerson.calculate_max_flow; algorithms.py imports only
\* NetworkNotValidError, so `raise NodeNotFoundError(...)` raises NameError
calculate_max_flow_raises(g, source, sink) ==
  IF source \notin NodeIdSet(g) THEN "NameError"
  ELSE IF sink \notin NodeIdSet(g) THEN "NameError"
  ELSE IF source = sink THEN "NetworkNotValidError"
  ELSE IF ~get_node(g, source).is_source THEN "NetworkNotValidError"
  ELSE IF ~get_node(g, sink).is_sink THEN "NetworkNotValidError"
  ELSE "none"

\* ----------------------------------------------------------- FlowNetwork
update_edge_capacity_raises(g, edge_id, new_capacity) ==
  IF get_edge_raises(g, edge_id) # "none" THEN get_edge_raises(g, edge_id)
  ELSE IF new_capacity < get_edge(g, edge_id).flow THEN "InvalidInputError"
  ELSE "none"

\* update_edge_capacity that sets the flow with the capacity
update_edge_capacity_fills(g, edge_id, new_capacity) ==
  [g EXCEPT !.edges = [i \in DOMAIN g.edges |->
                         IF g.edges[i].id = edge_id
                         THEN [g.edges[i] EXCEPT !.capacity = new_capacity, !.flow = new_capacity]
                         ELSE g.edges[i]]]

update_edge_capacity(g, edge_id, new_capacity) ==
  [g EXCEPT !.edges = [i \in DOMAIN g.edges |->
                         IF g.edges[i].id = edge_id
                         THEN [g.edges[i] EXCEPT !.capacity = new_capacity]
                         ELSE g.edges[i]]]

\* set_node_as_source that leaves is_sink as it is
set_node_as_source_keeps_sink(g, node_id) ==
  [g EXCEPT !.nodes = [i \in DOMAIN g.nodes |->
                         IF g.nodes[i].id = node_id
                         THEN [g.nodes[i] EXCEPT !.is_source = TRUE]
                         ELSE g.nodes[i]]]

set_node_as_source(g, node_id) ==
  [g EXCEPT !.nodes = [i \in DOMAIN g.nodes |->
                         IF g.nodes[i].id = node_id
                         THEN [g.nodes[i] EXCEPT !.is_source = TRUE, !.is_sink = FALSE]
                         ELSE g.nodes[i]]]

set_node_as_sink(g, node_id) ==
  [g EXCEPT !.nodes = [i \in DOMAIN g.nodes |->
                         IF g.nodes[i].id = node_id
                         THEN [g.nodes[i] EXCEPT !.is_sink = TRUE, !.is_source = FALSE]
                         ELSE g.nodes[i]]]

get_source_node_raises(g) ==
  IF get_source_nodes(g) = <<>> THEN "NetworkNotValidError" ELSE "none"

\* get_source_node that returns the last source
get_source_node_last(g) == get_source_nodes(g)[Len(get_source_nodes(g))]

get_source_node(g) == get_source_nodes(g)[1]

get_sink_node_raises(g) ==
  IF get_sink_nodes(g) = <<>> THEN "NetworkNotValidError" ELSE "none"

\* get_sink_node that returns the last sink
get_sink_node_last(g) == get_sink_nodes(g)[Len(get_sink_nodes(g))]

get_sink_node(g) == get_sink_nodes(g)[1]

\* the while loop of validate_network: TRUE at the break, FALSE when the
\* stack runs empty (the else of the while)
RECURSIVE ValidateLoop(_, _, _, _)
ValidateLoop(g, sink, stack, visited) ==
  IF stack = <<>> THEN FALSE
  ELSE LET current_id == stack[Len(stack)]
           popped == SubSeq(stack, 1, Len(stack) - 1)
       IN IF current_id = sink THEN TRUE
          ELSE IF current_id \notin visited
          THEN LET edges == get_edges_from_node(g, current_id)
               IN ValidateLoop(g, sink, popped \o [i \in DOMAIN edges |-> edges[i].end_node_id],
                               visited \cup {current_id})
          ELSE ValidateLoop(g, sink, popped, visited)

\* validate_network that looks for the sink among the end nodes of the
\* edges of the source only
validate_network_one_step(g) ==
  IF Len(get_source_nodes(g)) # 1 THEN FALSE
  ELSE IF Len(get_sink_nodes(g)) # 1 THEN FALSE
  ELSE \/ get_source_nodes(g)[1].id = get_sink_nodes(g)[1].id
       \/ \E e \in Range(get_edges_from_node(g, get_source_nodes(g)[1].id)) :
            e.end_node_id = get_sink_nodes(g)[1].id

\* the value validate_network returns; every NetworkNotValidError it raises
\* it catches
validate_network(g) ==
  IF Len(get_source_nodes(g)) # 1 THEN FALSE
  ELSE IF Len(get_sink_nodes(g)) # 1 THEN FALSE
  ELSE ValidateLoop(g, get_sink_nodes(g)[1].id, <<get_source_nodes(g)[1].id>>, {})

\* reset_flows that skips the first edge
reset_flows_skip_first(g) ==
  [g EXCEPT !.edges = [i \in DOMAIN g.edges |->
                         IF i = 1 THEN g.edges[i] ELSE [g.edges[i] EXCEPT !.flow = 0]]]

\* reset_flows that clears the capacity with the flow
reset_flows_clear_capacity(g) ==
  [g EXCEPT !.edges = [i \in DOMAIN g.edges |-> [g.edges[i] EXCEPT !.flow = 0, !.capacity = 0]]]

reset_flows(g) ==
  [g EXCEPT !.edges = [i \in DOMAIN g.edges |-> [g.edges[i] EXCEPT !.flow = 0]]]

\* ----------------------------------------------------------------- state
\* ret: what the last call returned or raised.  kind is "none" (returned
\* None or an object), the name of the exception raised, "max_flow"
\* (FordFulkerson.calculate_max_flow returned value) or "max_flow_cut"
\* (FlowNetwork.calculate_max_flow returned value, S, T).
\* source, sink, from_zero, after_reset, augmentations and again describe
\* the run that ended.
Ret(kind) ==
  [kind |-> kind, value |-> 0, S |-> {}, T |-> <<>>, source |-> "", sink |-> "",
   from_zero |-> FALSE, after_reset |-> FALSE, augmentations |-> 0, again |-> FALSE]

\* run: the run in progress (history): the number of augmentations it has
\* made, the number of arcs of the last path it found (0 before the first),
\* and whether it is the call right after a run that returned for the same
\* source and sink
NoRun == [augmentations |-> 0, path_len |-> 0, again |-> FALSE]

\* stale_edits: the number of calls that changed the graph since
\* residual_graph was last built by a run (history, bounded by MaxStaleEdits)
\* memo: the result of the first run from all-zero flows since the graph was
\* last edited, and whether reset_flows was the last call that changed a
\* flow since (history, not program state)
NoMemo ==
  [set |-> FALSE, was_reset |-> FALSE, source |-> "", sink |-> "", value |-> 0, edges |-> <<>>]

\* call: the last call of a Graph or FlowNetwork method or of a constructor,
\* the exception it raised ("none" when it returned), its arguments (for
\* the calls that note them) and its result: what it returned, the object
\* a constructor made, or for a role setter the node get_node handed it,
\* as it was before the assignments (history).  It is kept by the
\* behaviours that start with call.on; the others keep NoCall throughout.
NoCall == [on |-> FALSE, op |-> "", raises |-> "none", result |-> <<>>, args |-> <<>>]

NoteArgs(op, raises, result, args) ==
  IF call.on THEN [call EXCEPT !.op = op, !.raises = raises, !.result = result, !.args = args]
  ELSE call

NoteResult(op, raises, result) == NoteArgs(op, raises, result, <<>>)

Note(op, raises) == NoteResult(op, raises, <<>>)

AllZero(g) == \A i \in DOMAIN g.edges : g.edges[i].flow = 0

Init ==
  /\ graph = Graph
  /\ residual_graph = _build_residual_graph(Graph, Graph)
  /\ pc = "idle"
  /\ source_id = ""
  /\ sink_id = ""
  /\ max_flow = 0
  /\ via_network = FALSE
  /\ from_zero = FALSE
  /\ ret = Ret("none")
  /\ memo = NoMemo
  /\ stale_edits = 0
  /\ call = NoCall
  /\ run = NoRun

\* a call that is not a max-flow computation: leaves g as the graph
Call(g, kind) ==
  /\ (g # graph /\ residual_graph # Graph) => stale_edits < MaxStaleEdits
  /\ stale_edits' = IF g # graph /\ residual_graph # Graph THEN stale_edits + 1 ELSE stale_edits
  /\ graph' = g
  /\ ret' = IF kind \in {"NetworkNotValidError", "NodeNotFoundError"} THEN Ret(kind) ELSE Ret("none")
  /\ memo' = IF g = graph THEN memo ELSE NoMemo
  /\ UNCHANGED <<residual_graph, pc, source_id, sink_id, max_flow, via_network, from_zero, run>>

AddNode(node_id, is_source, is_sink) ==
  /\ pc = "idle"
  /\ \E out \in {add_node_call(graph, node_id, is_source, is_sink)} :
       /\ Call(out.graph, out.raises)
       /\ call' = NoteResult("add_node", out.raises,
                             IF out.raises # "none" THEN <<>> ELSE get_node(out.graph, node_id))

RemoveNode(node_id) ==
  /\ pc = "idle"
  /\ call' = NoteResult("remove_node", get_node_raises(graph, node_id),
                        IF get_node_raises(graph, node_id) # "none" THEN <<>>
                        ELSE edges_to_remove(graph, node_id))
  /\ IF get_node_raises(graph, node_id) # "none"
     THEN Call(graph, get_node_raises(graph, node_id))
     ELSE Call(remove_node(graph, node_id), "none")

AddEdge(edge_id, start_node_id, end_node_id, capacity) ==
  /\ pc = "idle"
  /\ \E out \in {add_edge_call(graph, edge_id, start_node_id, end_node_id, capacity)} :
       /\ out.raises = "none" => Len(graph.edges) < MaxEdges
       /\ Call(out.graph, out.raises)
       /\ call' = Note("add_edge", out.raises)

RemoveEdge(edge_id) ==
  /\ pc = "idle"
  /\ call' = Note("remove_edge", get_edge_raises(graph, edge_id))
  /\ IF get_edge_raises(graph, edge_id) # "none"
     THEN Call(graph, get_edge_raises(graph, edge_id))
     ELSE Call(remove_edge(graph, edge_id), "none")

UpdateEdgeCapacity(edge_id, new_capacity) ==
  /\ pc = "idle"
  /\ call' = NoteArgs("update_edge_capacity",
                      update_edge_capacity_raises(graph, edge_id, new_capacity), <<>>,
                      <<edge_id, new_capacity>>)
  /\ IF update_edge_capacity_raises(graph, edge_id, new_capacity) # "none"
     THEN Call(graph, update_edge_capacity_raises(graph, edge_id, new_capacity))
     ELSE Call(update_edge_capacity(graph, edge_id, new_capacity), "none")

SetNodeAsSource(node_id) ==
  /\ pc = "idle"
  /\ call' = NoteArgs("set_node_as_source", get_node_raises(graph, node_id),
                      IF get_node_raises(graph, node_id) # "none" THEN <<>>
                      ELSE get_node(graph, node_id), <<node_id>>)
  /\ IF get_node_raises(graph, node_id) # "none"
     THEN Call(graph, get_node_raises(graph, node_id))
     ELSE Call(set_node_as_source(graph, node_id), "none")

SetNodeAsSink(node_id) ==
  /\ pc = "idle"
  /\ call' = NoteArgs("set_node_as_sink", get_node_raises(graph, node_id),
                      IF get_node_raises(graph, node_id) # "none" THEN <<>>
                      ELSE get_node(graph, node_id), <<node_id>>)
  /\ IF get_node_raises(graph, node_id) # "none"
     THEN Call(graph, get_node_raises(graph, node_id))
     ELSE Call(set_node_as_sink(graph, node_id), "none")

ResetFlows ==
  /\ pc = "idle"
  /\ (reset_flows(graph) # graph /\ residual_graph # Graph) => stale_edits < MaxStaleEdits
  /\ stale_edits' = IF reset_flows(graph) # graph /\ residual_graph # Graph
                    THEN stale_edits + 1 ELSE stale_edits
  /\ graph' = reset_flows(graph)
  /\ ret' = Ret("none")
  /\ memo' = IF memo.set THEN [memo EXCEPT !.was_reset = TRUE] ELSE memo
  /\ call' = Note("reset_flows", "none")
  /\ UNCHANGED <<residual_graph, pc, source_id, sink_id, max_flow, via_network, from_zero, run>>

\* Graph.get_node and Graph.get_edge: return the stored object or raise
GetNode(node_id) ==
  /\ pc = "idle"
  /\ call' = Note("get_node", get_node_raises(graph, node_id))
  /\ Call(graph, get_node_raises(graph, node_id))

GetEdge(edge_id) ==
  /\ pc = "idle"
  /\ call' = Note("get_edge", get_edge_raises(graph, edge_id))
  /\ Call(graph, get_edge_raises(graph, edge_id))

\* Graph.get_edges_from_node, which raises nothing
GetEdgesFromNode(node_id) ==
  /\ pc = "idle"
  /\ call' = NoteArgs("get_edges_from_node", "none", get_edges_from_node(graph, node_id), <<node_id>>)
  /\ Call(graph, "none")

\* FlowNetwork.validate_network
ValidateNetwork ==
  /\ pc = "idle"
  /\ call' = NoteResult("validate_network", "none", validate_network(graph))
  /\ Call(graph, "none")

\* FlowNetwork.get_source_node and get_sink_node
GetSourceNode ==
  /\ pc = "idle"
  /\ call' = NoteResult("get_source_node", get_source_node_raises(graph),
                        IF get_source_node_raises(graph) # "none" THEN <<>>
                        ELSE get_source_node(graph))
  /\ Call(graph, get_source_node_raises(graph))

GetSinkNode ==
  /\ pc = "idle"
  /\ call' = NoteResult("get_sink_node", get_sink_node_raises(graph),
                        IF get_sink_node_raises(graph) # "none" THEN <<>>
                        ELSE get_sink_node(graph))
  /\ Call(graph, get_sink_node_raises(graph))

\* FordFulkerson.get_min_cut(source_id) called on the solver between runs:
\* it reads residual_graph as the last run left it, and raises nothing
GetMinCut(source) ==
  /\ pc = "idle"
  /\ call' = NoteArgs("get_min_cut", "none", get_min_cut(residual_graph, graph, source), <<source>>)
  /\ Call(graph, "none")

\* Edge(id, start_node_id, end_node_id, capacity, flow): the constructor
\* called on its own, as the tests of the Edge do
NewEdge(id, start_node_id, end_node_id, capacity, flow) ==
  /\ pc = "idle"
  /\ call' = NoteArgs("Edge", Edge__post_init__(id, capacity, flow),
                      IF Edge__post_init__(id, capacity, flow) # "none" THEN <<>>
                      ELSE Edge(id, start_node_id, end_node_id, capacity, flow),
                      <<id, start_node_id, end_node_id, capacity, flow>>)
  /\ Call(graph, Edge__post_init__(id, capacity, flow))

\* calculate_max_flow that sets every flow to 0 before its loop
Enter_resets_flows(source, sink, via) ==
  /\ call' = Note("calculate_max_flow", calculate_max_flow_raises(graph, source, sink))
  /\ IF calculate_max_flow_raises(graph, source, sink) # "none"
     THEN /\ ret' = Ret(calculate_max_flow_raises(graph, source, sink))
          /\ UNCHANGED <<graph, residual_graph, pc, source_id, sink_id, max_flow,
                         via_network, from_zero, memo, stale_edits, run>>
     ELSE /\ pc' = "loop"
          /\ source_id' = source
          /\ sink_id' = sink
          /\ max_flow' = 0
          /\ via_network' = via
          /\ from_zero' = TRUE
          /\ ret' = Ret("none")
          /\ run' = [NoRun EXCEPT !.again = /\ ret.kind \in {"max_flow", "max_flow_cut"}
                                            /\ ret.source = source
                                            /\ ret.sink = sink]
          /\ graph' = reset_flows(graph)
          /\ UNCHANGED <<residual_graph, memo, stale_edits>>

\* FordFulkerson.calculate_max_flow up to the first iteration of its loop
Enter(source, sink, via) ==
  /\ call' = Note("calculate_max_flow", calculate_max_flow_raises(graph, source, sink))
  /\ IF calculate_max_flow_raises(graph, source, sink) # "none"
     THEN /\ ret' = Ret(calculate_max_flow_raises(graph, source, sink))
          /\ UNCHANGED <<graph, residual_graph, pc, source_id, sink_id, max_flow,
                         via_network, from_zero, memo, stale_edits, run>>
     ELSE /\ pc' = "loop"
          /\ source_id' = source
          /\ sink_id' = sink
          /\ max_flow' = 0
          /\ via_network' = via
          /\ from_zero' = AllZero(graph)
          /\ ret' = Ret("none")
          /\ run' = [NoRun EXCEPT !.again = /\ ret.kind \in {"max_flow", "max_flow_cut"}
                                            /\ ret.source = source
                                            /\ ret.sink = sink]
          /\ UNCHANGED <<graph, residual_graph, memo, stale_edits>>

\* FlowNetwork.calculate_max_flow: get_source_node, get_sink_node, the solver
CalculateMaxFlow ==
  /\ pc = "idle"
  /\ IF get_source_node_raises(graph) # "none"
     THEN /\ Call(graph, get_source_node_raises(graph))
          /\ call' = Note("calculate_max_flow", get_source_node_raises(graph))
     ELSE IF get_sink_node_raises(graph) # "none"
     THEN /\ Call(graph, get_sink_node_raises(graph))
          /\ call' = Note("calculate_max_flow", get_sink_node_raises(graph))
     ELSE Enter(get_source_node(graph).id, get_sink_node(graph).id, TRUE)

\* FordFulkerson.calculate_max_flow(source, sink) called on the solver
SolverCalculateMaxFlow(source, sink) ==
  /\ pc = "idle"
  /\ Enter(source, sink, FALSE)

Leave ==
  /\ pc' = "idle"
  /\ source_id' = ""
  /\ sink_id' = ""
  /\ max_flow' = 0
  /\ via_network' = FALSE
  /\ from_zero' = FALSE
  /\ run' = NoRun

\* one iteration of the loop that finds a path: rebuild, search, update
Augment ==
  /\ pc = "loop"
  /\ \E built \in {rebuild(graph)} :
     \E result \in {_find_augmenting_path(built.residual_graph, source_id, sink_id)} :
     \E updated \in {_update_flows(built.graph, result.path, result.min_capacity)} :
        /\ ~result.none
        /\ residual_graph' = built.residual_graph
        /\ stale_edits' = 0
        /\ graph' = updated.graph
        /\ memo' = IF updated.raises # "none" THEN NoMemo ELSE memo
        /\ UNCHANGED call
        /\ IF updated.raises # "none"
           THEN Leave /\ ret' = [Ret(updated.raises) EXCEPT !.source = source_id,
                                     !.sink = sink_id, !.from_zero = from_zero]
           ELSE /\ max_flow' = Clamp(max_flow + result.min_capacity)
                /\ run' = [run EXCEPT !.augmentations = Clamp(@ + 1),
                                      !.path_len = Len(result.path)]
                /\ UNCHANGED <<pc, source_id, sink_id, via_network, from_zero, ret>>

\* the iteration that finds no path: break, return (and get_min_cut when
\* the call came through FlowNetwork.calculate_max_flow)
Finish ==
  /\ pc = "loop"
  /\ \E built \in {rebuild(graph)} :
     \E result \in {_find_augmenting_path(built.residual_graph, source_id, sink_id)} :
     \E cut \in {get_min_cut(built.residual_graph, built.graph, source_id)} :
     \E same \in {memo.set /\ memo.source = source_id /\ memo.sink = sink_id} :
        /\ result.none
        /\ residual_graph' = built.residual_graph
        /\ stale_edits' = 0
        /\ Leave
        /\ ret' = [kind |-> IF via_network THEN "max_flow_cut" ELSE "max_flow",
                   value |-> max_flow,
                   S |-> IF via_network THEN cut.S ELSE {},
                   T |-> IF via_network THEN cut.T ELSE <<>>,
                   source |-> source_id, sink |-> sink_id, from_zero |-> from_zero,
                   after_reset |-> same /\ memo.was_reset,
                   augmentations |-> run.augmentations, again |-> run.again]
        /\ memo' = IF same \/ ~from_zero THEN [memo EXCEPT !.was_reset = FALSE]
                   ELSE [set |-> TRUE, was_reset |-> FALSE, source |-> source_id,
                         sink |-> sink_id, value |-> max_flow, edges |-> built.graph.edges]
        /\ graph' = built.graph
        /\ UNCHANGED call

\* arguments of the calls of Spec: the ids of EditNodeIds and EditEdgeIds and the empty id
NodeArgs == EditNodeIds \cup {""}
EdgeArgs == EditEdgeIds \cup {<<>>}

Next ==
  \/ \E n \in NodeArgs, src \in BOOLEAN, snk \in BOOLEAN : AddNode(n, src, snk)
  \/ \E n \in EditNodeIds : RemoveNode(n)
  \/ \E e \in EdgeArgs, a \in EditNodeIds, b \in EditNodeIds, c \in -1..MaxCap : AddEdge(e, a, b, c)
  \/ \E e \in EditEdgeIds : RemoveEdge(e)
  \/ \E e \in EditEdgeIds, c \in -1..MaxCap : UpdateEdgeCapacity(e, c)
  \/ \E n \in EditNodeIds : SetNodeAsSource(n)
  \/ \E n \in EditNodeIds : SetNodeAsSink(n)
  \/ ResetFlows
  \/ ValidateNetwork
  \/ \E n \in EditNodeIds : GetMinCut(n)
  \/ CalculateMaxFlow
  \/ \E a \in EditNodeIds, b \in EditNodeIds : SolverCalculateMaxFlow(a, b)
  \/ Augment
  \/ Finish

Spec == Init /\ [][Next]_vars

\* ------------------------------------------------- networks, then flows
\* the network s (source), a, t (sink) as three add_node calls build it
ThreeNodes ==
  add_node(add_node(add_node(Graph, "s", TRUE, FALSE), "a", FALSE, FALSE), "t", FALSE, TRUE)

\* the graphs that at most k successful add_edge calls make of ThreeNodes
RECURSIVE Networks(_)
Networks(k) ==
  IF k = 0 THEN {ThreeNodes}
  ELSE LET smaller == Networks(k - 1)
       IN smaller \cup
          {add_edge(g, e, a, b, c) :
             <<g, e, a, b, c>> \in
               {w \in smaller \X EdgeIds \X NodeIds \X NodeIds \X (0..MaxCap) :
                  /\ Len(w[1].edges) = k - 1
                  /\ add_edge_raises(w[1], w[2], w[3], w[4], w[5]) = "none"}}

InitFlow ==
  /\ graph \in Networks(MaxEdges)
  /\ residual_graph = _build_residual_graph(Graph, Graph)
  /\ pc = "idle"
  /\ source_id = ""
  /\ sink_id = ""
  /\ max_flow = 0
  /\ via_network = FALSE
  /\ from_zero = FALSE
  /\ ret = Ret("none")
  /\ memo = NoMemo
  /\ stale_edits = 0
  /\ call = NoCall
  /\ run = NoRun

NextFlow ==
  \/ CalculateMaxFlow
  \/ \E a \in NodeIds, b \in NodeIds : SolverCalculateMaxFlow(a, b)
  \/ Augment
  \/ Finish
  \/ ResetFlows

SpecFlow == InitFlow /\ [][NextFlow]_vars

\* justified by the code: the loop of calculate_max_flow runs to its end
\* (break, or an exception) without waiting for anything
FairSpecFlow == SpecFlow /\ WF_vars(Augment) /\ WF_vars(Finish)

\* ------------------------------------------------ the calls of the Graph
\* the calls that edit or read the graph, each recorded in call, on the
\* three nodes; no run of the solver, so every flow is 0
GraphNodeArgs == NodeIds \cup {""}
GraphEdgeArgs == {<<"x">>, <<"y">>, <<>>}
GraphCaps == {-1, 1}
RoleNodeIds == {"s"}

InitGraph ==
  /\ graph = Graph
  /\ residual_graph = _build_residual_graph(Graph, Graph)
  /\ pc = "idle"
  /\ source_id = ""
  /\ sink_id = ""
  /\ max_flow = 0
  /\ via_network = FALSE
  /\ from_zero = FALSE
  /\ ret = Ret("none")
  /\ memo = NoMemo
  /\ stale_edits = 0
  /\ call = [NoCall EXCEPT !.on = TRUE]
  /\ run = NoRun

NextGraph ==
  \/ \E n \in GraphNodeArgs : AddNode(n, FALSE, FALSE)
  \/ \E n \in NodeIds : RemoveNode(n)
  \/ \E e \in GraphEdgeArgs, a \in NodeIds, b \in NodeIds, c \in GraphCaps : AddEdge(e, a, b, c)
  \/ \E e \in GraphEdgeArgs : RemoveEdge(e)
  \/ \E e \in GraphEdgeArgs, c \in GraphCaps : UpdateEdgeCapacity(e, c)
  \/ \E n \in RoleNodeIds : SetNodeAsSource(n)
  \/ \E n \in RoleNodeIds : SetNodeAsSink(n)
  \/ \E n \in GraphNodeArgs : GetNode(n)
  \/ \E e \in GraphEdgeArgs : GetEdge(e)
  \/ \E n \in GraphNodeArgs : GetEdgesFromNode(n)

SpecGraph == InitGraph /\ [][NextGraph]_vars

\* the constructor of the Edge on every id, pair of node ids, capacity and flow
NextEdge ==
  \E id \in GraphEdgeArgs, a \in NodeIds, b \in NodeIds, c \in -1..MaxCap, f \in -1..(MaxCap + 1) :
     NewEdge(id, a, b, c, f)

SpecEdge == InitGraph /\ [][NextEdge]_vars

\* ------------------------------------------------- networks with roles
\* the graphs that at most k successful add_edge calls with ids of ids and
\* capacities of caps make of base
RECURSIVE NetworksOn(_, _, _, _)
NetworksOn(base, ids, caps, k) ==
  IF k = 0 THEN {base}
  ELSE LET smaller == NetworksOn(base, ids, caps, k - 1)
       IN smaller \cup
          {add_edge(w[1], w[2], w[3], w[4], w[5]) :
             w \in {v \in smaller \X ids \X NodeIds \X NodeIds \X caps :
                      /\ Len(v[1].edges) = k - 1
                      /\ add_edge_raises(v[1], v[2], v[3], v[4], v[5]) = "none"}}

\* s, a and t added in this order, each with any pair of flags
RoleNodes ==
  {add_node(add_node(add_node(Graph, "s", f[1], f[2]), "a", f[3], f[4]), "t", f[5], f[6]) :
     f \in [1..6 -> BOOLEAN]}

InitValidate ==
  /\ graph \in UNION {NetworksOn(base, {<<"x">>, <<"y">>}, {0, 1}, MaxEdges) : base \in RoleNodes}
  /\ residual_graph = _build_residual_graph(Graph, Graph)
  /\ pc = "idle"
  /\ source_id = ""
  /\ sink_id = ""
  /\ max_flow = 0
  /\ via_network = FALSE
  /\ from_zero = FALSE
  /\ ret = Ret("none")
  /\ memo = NoMemo
  /\ stale_edits = 0
  /\ call = [NoCall EXCEPT !.on = TRUE]
  /\ run = NoRun

SpecValidate == InitValidate /\ [][ValidateNetwork]_vars

\* ------------------------------------------------ roles, runs and reads
\* role networks with edges of capacity 1: the role setters, the reads of
\* the source and the sink, and runs through FlowNetwork.calculate_max_flow
InitRoles ==
  /\ graph \in UNION {NetworksOn(base, {<<"x">>, <<"y">>}, {1}, MaxEdges) : base \in RoleNodes}
  /\ residual_graph = _build_residual_graph(Graph, Graph)
  /\ pc = "idle"
  /\ source_id = ""
  /\ sink_id = ""
  /\ max_flow = 0
  /\ via_network = FALSE
  /\ from_zero = FALSE
  /\ ret = Ret("none")
  /\ memo = NoMemo
  /\ stale_edits = 0
  /\ call = [NoCall EXCEPT !.on = TRUE]
  /\ run = NoRun

NextRoles ==
  \/ \E n \in GraphNodeArgs \ {""} : SetNodeAsSource(n)
  \/ \E n \in GraphNodeArgs \ {""} : SetNodeAsSink(n)
  \/ GetSourceNode
  \/ GetSinkNode
  \/ CalculateMaxFlow
  \/ Augment
  \/ Finish

SpecRoles == InitRoles /\ [][NextRoles]_vars

\* ------------------------------------------- capacities changed after runs
\* s (source), a, b, t (sink) with the path p: s -> a, x_backward: a -> b,
\* q: b -> t, the edges r: s -> b and u: a -> t of capacity 0 that a later
\* update_edge_capacity can open, and the edge x: t -> a that is on no path
\* from s to t
FourNodes ==
  add_node(add_node(add_node(add_node(Graph, "s", TRUE, FALSE), "a", FALSE, FALSE),
                    "b", FALSE, FALSE), "t", FALSE, TRUE)

Diamond(c1, c2, cx) ==
  add_edge(add_edge(add_edge(add_edge(add_edge(add_edge(FourNodes,
    <<"p">>, "s", "a", c1), <<"x", "_backward">>, "a", "b", c2), <<"q">>, "b", "t", c1),
    <<"x">>, "t", "a", cx), <<"r">>, "s", "b", 0), <<"u">>, "a", "t", 0)

CapacityEdgeArgs == {<<"x">>, <<"r">>, <<"u">>, <<"y">>}

InitCapacity ==
  /\ graph \in {Diamond(c1, c2, cx) : c1 \in 1..MaxCap, c2 \in 1..MaxCap, cx \in 0..MaxCap}
  /\ residual_graph = _build_residual_graph(Graph, Graph)
  /\ pc = "idle"
  /\ source_id = ""
  /\ sink_id = ""
  /\ max_flow = 0
  /\ via_network = FALSE
  /\ from_zero = FALSE
  /\ ret = Ret("none")
  /\ memo = NoMemo
  /\ stale_edits = 0
  /\ call = [NoCall EXCEPT !.on = TRUE]
  /\ run = NoRun

NextCapacity ==
  \/ \E e \in CapacityEdgeArgs, c \in -1..MaxCap : UpdateEdgeCapacity(e, c)
  \/ CalculateMaxFlow
  \/ Augment
  \/ Finish

SpecCapacity == InitCapacity /\ [][NextCapacity]_vars

\* ------------------------------------------------- runs on three edges
\* the networks that add_edge calls for x_forward, y and x, in this order,
\* with any endpoints and capacities, make of ThreeNodes
ThreeEdgeNetworks ==
  {add_edge(add_edge(add_edge(ThreeNodes, <<"x", "_forward">>, p[1], p[2], c[1]),
                     <<"y">>, p[3], p[4], c[2]),
            <<"x">>, p[5], p[6], c[3]) :
     p \in {q \in [1..6 -> NodeIds] : q[1] # q[2] /\ q[3] # q[4] /\ q[5] # q[6]},
     c \in [1..3 -> 0..MaxCap]}

InitThreeEdges ==
  /\ graph \in ThreeEdgeNetworks
  /\ residual_graph = _build_residual_graph(Graph, Graph)
  /\ pc = "idle"
  /\ source_id = ""
  /\ sink_id = ""
  /\ max_flow = 0
  /\ via_network = FALSE
  /\ from_zero = FALSE
  /\ ret = Ret("none")
  /\ memo = NoMemo
  /\ stale_edits = 0
  /\ call = NoCall
  /\ run = NoRun

NextThreeEdges ==
  \/ CalculateMaxFlow
  \/ Augment
  \/ Finish

SpecThreeEdges == InitThreeEdges /\ [][NextThreeEdges]_vars

\* ------------------------------------------------ cuts read after edits
\* networks on s, a, t with edges x and y of capacity 1: runs, remove_node
\* calls and get_min_cut calls on the solver, each recorded in call
InitCut ==
  /\ graph \in NetworksOn(ThreeNodes, {<<"x">>, <<"y">>}, {1}, MaxEdges)
  /\ residual_graph = _build_residual_graph(Graph, Graph)
  /\ pc = "idle"
  /\ source_id = ""
  /\ sink_id = ""
  /\ max_flow = 0
  /\ via_network = FALSE
  /\ from_zero = FALSE
  /\ ret = Ret("none")
  /\ memo = NoMemo
  /\ stale_edits = 0
  /\ call = [NoCall EXCEPT !.on = TRUE]
  /\ run = NoRun

NextCut ==
  \/ CalculateMaxFlow
  \/ Augment
  \/ Finish
  \/ \E n \in NodeIds : RemoveNode(n)
  \/ \E n \in NodeIds : GetMinCut(n)

SpecCut == InitCut /\ [][NextCut]_vars

\* ---------------------------------------------------------------- claims
RECURSIVE SumOver(_, _)
SumOver(edges, field) ==
  IF edges = <<>> THEN 0 ELSE field[Head(edges).id] + SumOver(Tail(edges), field)

FlowOf(g) == [id \in EdgeIdSet(g) |-> get_edge(g, id).flow]
CapacityOf(g) == [id \in EdgeIdSet(g) |-> get_edge(g, id).capacity]

Inflow(g, n) == SumOver(SelectSeq(g.edges, LAMBDA e : e.end_node_id = n), FlowOf(g))
Outflow(g, n) == SumOver(SelectSeq(g.edges, LAMBDA e : e.start_node_id = n), FlowOf(g))

\* the sum of the capacities of the edges that start in S and end in T
CutCapacity(g, S, T) ==
  SumOver(SelectSeq(g.edges, LAMBDA e : e.start_node_id \in S /\ e.end_node_id \in T), CapacityOf(g))

\* the minimum of the cut capacity over all cuts that separate source from sink
MinCutValue(g, source, sink) ==
  LET cuts == {S \in SUBSET NodeIdSet(g) : source \in S /\ sink \notin S}
      values == {CutCapacity(g, S, NodeIdSet(g) \ S) : S \in cuts}
  IN CHOOSE v \in values : \A w \in values : v <= w

\* the number of times x is in seq
Count(seq, x) == Cardinality({i \in DOMAIN seq : seq[i] = x})

\* the ids of the edges of g that start or end at n
Incident(g, n) ==
  {g.edges[i].id : i \in {j \in DOMAIN g.edges :
                            g.edges[j].start_node_id = n \/ g.edges[j].end_node_id = n}}

\* the calls that change the graph when they return
Mutations ==
  {"add_node", "add_edge", "remove_node", "remove_edge", "update_edge_capacity",
   "set_node_as_source", "set_node_as_sink"}

\* the arcs the residual graph of g is to have: a forward arc for every edge
\* with capacity - flow > 0, a backward arc for every edge with flow > 0
ResidualArcs(g) ==
  {Edge(Append(e.id, "_forward"), e.start_node_id, e.end_node_id, e.capacity - e.flow, 0) :
     e \in {d \in Range(g.edges) : d.capacity - d.flow > 0}}
  \cup
  {Edge(Append(e.id, "_backward"), e.end_node_id, e.start_node_id, e.flow, 0) :
     e \in {d \in Range(g.edges) : d.flow > 0}}

\* the least capacity of the arcs of path in rg
LeastCapacity(rg, path) ==
  CHOOSE c \in {get_edge(rg, path[i]).capacity : i \in DOMAIN path} :
    \A i \in DOMAIN path : c <= get_edge(rg, path[i]).capacity

\* what an augmentation by bottleneck along path is to add to the flow of
\* edge: the bottleneck for its forward arc, minus the bottleneck for its
\* backward arc
FlowChange(edge, path, bottleneck) ==
  (IF Append(edge.id, "_forward") \in Range(path) THEN bottleneck ELSE 0)
  - (IF Append(edge.id, "_backward") \in Range(path) THEN bottleneck ELSE 0)

\* the nodes that the stored edges, followed from start to end, reach from S
RECURSIVE ReachFrom(_, _)
ReachFrom(g, S) ==
  LET next == S \cup {e.end_node_id : e \in {d \in Range(g.edges) : d.start_node_id \in S}}
  IN IF next = S THEN S ELSE ReachFrom(g, next)

Sources(g) == {n \in Range(g.nodes) : n.is_source}
Sinks(g) == {n \in Range(g.nodes) : n.is_sink}

BothRoles(g) == {n \in Range(g.nodes) : n.is_source /\ n.is_sink}

\* the first node of g.nodes that has the flag
IsFirstWith(g, node, flag(_)) ==
  \E j \in DOMAIN g.nodes :
     /\ g.nodes[j] = node
     /\ flag(node)
     /\ \A i \in 1..(j - 1) : ~flag(g.nodes[i])

SomeFlow(g) == \E i \in DOMAIN g.edges : g.edges[i].flow > 0

\* every edge stored before and after the step has the flow it had
FlowsKept ==
  \A id \in EdgeIdSet(graph) \cap EdgeIdSet(graph') :
     get_edge(graph', id).flow = get_edge(graph, id).flow

\* a step of one of the calls that are neither a run nor reset_flows
EditOrRead ==
  \/ \E n \in NodeArgs, src \in BOOLEAN, snk \in BOOLEAN : AddNode(n, src, snk)
  \/ \E n \in EditNodeIds : RemoveNode(n)
  \/ \E e \in EdgeArgs, a \in EditNodeIds, b \in EditNodeIds, c \in -1..MaxCap : AddEdge(e, a, b, c)
  \/ \E e \in EditEdgeIds : RemoveEdge(e)
  \/ \E e \in EditEdgeIds, c \in -1..MaxCap : UpdateEdgeCapacity(e, c)
  \/ \E n \in EditNodeIds : SetNodeAsSource(n)
  \/ \E n \in EditNodeIds : SetNodeAsSink(n)
  \/ ValidateNetwork
  \/ \E n \in EditNodeIds : GetMinCut(n)

\* p is a sequence of arcs of rg of capacity > 0 that leads from source to sink
IsArcPath(rg, p, source, sink) ==
  /\ get_edge(rg, p[1]).start_node_id = source
  /\ get_edge(rg, p[Len(p)]).end_node_id = sink
  /\ \A i \in 1..(Len(p) - 1) :
       get_edge(rg, p[i]).end_node_id = get_edge(rg, p[i + 1]).start_node_id
  /\ \A i \in DOMAIN p : get_edge(rg, p[i]).capacity > 0

ArcPathsOfLen(rg, source, sink, k) ==
  {p \in [1..k -> EdgeIdSet(rg)] : IsArcPath(rg, p, source, sink)}

\* the paths from source to sink with the fewest arcs (a shortest path
\* passes no node twice, so it has fewer arcs than rg has nodes)
ShortestArcPaths(rg, source, sink) ==
  LET lens == {k \in 1..Len(rg.nodes) : ArcPathsOfLen(rg, source, sink, k) # {}}
  IN IF lens = {} THEN {}
     ELSE ArcPathsOfLen(rg, source, sink, CHOOSE k \in lens : \A j \in lens : k <= j)

\* the place of an arc in the adjacency list of the node it starts at
Position(rg, id) ==
  CHOOSE i \in DOMAIN rg.adjacency_list[get_edge(rg, id).start_node_id] :
    rg.adjacency_list[get_edge(rg, id).start_node_id][i] = id

\* p and q have the same length; where they first differ, the arc of p comes
\* first in the adjacency list of the node both arcs start at
Earlier(rg, p, q) ==
  \E i \in DOMAIN p :
     /\ \A j \in 1..(i - 1) : p[j] = q[j]
     /\ p[i] # q[i]
     /\ Position(rg, p[i]) < Position(rg, q[i])

\* the sum of the capacities of the edges that start at n
SourceCapacity(g, n) ==
  SumOver(SelectSeq(g.edges, LAMBDA e : e.start_node_id = n), CapacityOf(g))

\* several nodes are sources or several are sinks, and none is both
SeveralOfARole(g) ==
  /\ Cardinality(Sources(g)) >= 2 \/ Cardinality(Sinks(g)) >= 2
  /\ Sources(g) # {}
  /\ Sinks(g) # {}
  /\ BothRoles(g) = {}

Returned == ret.kind \in {"max_flow", "max_flow_cut"}
RunEnded == Returned \/ (ret.kind = "NameError" /\ ret.source # "")

\* C1: in every reachable state, also between two augmentations of a run,
\* every edge has 0 <= flow <= capacity.
C1_CapacityBound ==
  \A i \in DOMAIN graph.edges :
    0 <= graph.edges[i].flow /\ graph.edges[i].flow <= graph.edges[i].capacity

\* C2: whenever FlowNetwork.calculate_max_flow returns (value, S, T), value is
\* the sum of the capacities of the edges of the graph that go from S to T.
C2_ValueIsCutCapacity ==
  ret.kind = "max_flow_cut" => ret.value = CutCapacity(graph, ret.S, Range(ret.T))

\* C3: a run started with all flows 0 (capacities are non-negative integers)
\* returns, and the value it returns is the minimum cut capacity between
\* source and sink, that is the value of a maximum flow.
C3_ReturnsMaxFlow ==
  (RunEnded /\ ret.from_zero) =>
     (Returned /\ ret.value = MinCutValue(graph, ret.source, ret.sink))

\* C4: when a run has returned, every node other than its source and its
\* sink has as much flow on the edges that end at it as on those that start at it.
C4_FlowConservation ==
  Returned =>
     \A n \in NodeIdSet(graph) \ {ret.source, ret.sink} : Inflow(graph, n) = Outflow(graph, n)

\* C5: every run ends: a call that has entered the loop of calculate_max_flow
\* leaves it.
C5_Terminates == (pc = "loop") ~> (pc = "idle")

\* C6: the S and T that FlowNetwork.calculate_max_flow gets from
\* get_min_cut(source) right after the run cover all nodes of the graph, are
\* disjoint, and S holds the source.
C6_Partition ==
  ret.kind = "max_flow_cut" =>
     /\ ret.S \cup Range(ret.T) = NodeIdSet(graph)
     /\ ret.S \cap Range(ret.T) = {}
     /\ ret.source \in ret.S

C6_Witness ==
  /\ ret.kind = "max_flow_cut"
  /\ Cardinality(ret.S) >= 2
  /\ ret.T # <<>>
  /\ ret.value > 0

\* C7: after a run that returned, get_min_cut(source) has the sink in T and not in S.
C7_SinkInT ==
  ret.kind = "max_flow_cut" => (ret.sink \in Range(ret.T) /\ ret.sink \notin ret.S)

C7_Witness ==
  /\ ret.kind = "max_flow_cut"
  /\ ret.value > 0
  /\ \E i \in DOMAIN graph.edges :
       graph.edges[i].start_node_id = ret.source /\ graph.edges[i].end_node_id = ret.sink

\* C9: a run from all-zero flows, then reset_flows, then a run for the same
\* source and sink on the unchanged graph: the second run returns the value
\* the first returned.
C9_SameValueAfterReset ==
  (Returned /\ ret.after_reset) => ret.value = memo.value

C9_Witness == Returned /\ ret.after_reset /\ ret.value > 0

\* C10: reset_flows sets every flow to 0, keeps the edges (ids, endpoints,
\* capacities, order), the nodes with their flags and the adjacency lists,
\* and a second reset_flows would change nothing more.
C10_ResetFrame ==
  [][ResetFlows =>
       /\ \A i \in DOMAIN graph'.edges : graph'.edges[i].flow = 0
       /\ DOMAIN graph'.edges = DOMAIN graph.edges
       /\ \A i \in DOMAIN graph.edges : graph'.edges[i] = [graph.edges[i] EXCEPT !.flow = 0]
       /\ graph'.nodes = graph.nodes
       /\ graph'.adjacency_list = graph.adjacency_list
       /\ reset_flows(graph') = graph']_vars

C10_Witness ==
  /\ memo.set /\ memo.was_reset /\ memo.value > 0
  /\ AllZero(graph)
  /\ ret.kind = "none" /\ pc = "idle"

\* C11: in every state the calls of add_node, add_edge, remove_node and
\* remove_edge reach, returned or raised: both end nodes of every stored
\* edge are stored nodes, the id of every edge is once in the adjacency list
\* of its start node and in no other, and every id in an adjacency list is
\* the id of a stored edge.
C11_GraphConsistent ==
  /\ \A i \in DOMAIN graph.edges :
       /\ graph.edges[i].start_node_id \in NodeIdSet(graph)
       /\ graph.edges[i].end_node_id \in NodeIdSet(graph)
       /\ \A n \in DOMAIN graph.adjacency_list :
            Count(graph.adjacency_list[n], graph.edges[i].id) =
              IF n = graph.edges[i].start_node_id THEN 1 ELSE 0
  /\ \A n \in DOMAIN graph.adjacency_list :
       Range(graph.adjacency_list[n]) \subseteq EdgeIdSet(graph)

C11_Witness ==
  /\ call.op = "remove_edge" /\ call.raises = "none"
  /\ Len(graph.edges) = 1
  /\ Len(graph.nodes) = 3

\* C12: a remove_node(id) that returns leaves id neither a stored node nor a
\* key of the adjacency lists, leaves no stored edge that starts or ends at
\* id, and keeps every other edge as it was, in the order they had in the
\* edge mapping and in the adjacency lists.
C12_RemoveNode ==
  [][\A n \in NodeIds :
       (call'.op = "remove_node" /\ n \in NodeIdSet(graph) /\ RemoveNode(n)) =>
          /\ n \notin NodeIdSet(graph')
          /\ n \notin DOMAIN graph'.adjacency_list
          /\ Incident(graph', n) = {}
          /\ graph'.edges = SelectSeq(graph.edges, LAMBDA e : e.id \notin Incident(graph, n))
          /\ \A m \in NodeIdSet(graph) \ {n} :
               graph'.adjacency_list[m] =
                 SelectSeq(graph.adjacency_list[m], LAMBDA id : id \notin Incident(graph, n))]_vars

C12_Witness ==
  /\ call.op = "remove_node" /\ call.raises = "none"
  /\ Len(call.result) = 1
  /\ Len(graph.edges) = 1

\* C13: a call of add_node, add_edge, remove_node, remove_edge,
\* update_edge_capacity, set_node_as_source or set_node_as_sink that raises
\* leaves the graph (nodes with their flags, edges with capacity and flow,
\* adjacency lists) as it was.
C13_FailedCallKeepsGraph ==
  [][(call'.op \in Mutations /\ call'.raises # "none") => graph' = graph]_vars

C13_Witness ==
  /\ call.op = "add_edge" /\ call.raises = "InvalidInputError"
  /\ Len(graph.edges) = 1
  /\ Len(graph.nodes) = 3

\* C14: FordFulkerson.calculate_max_flow(source_id, sink_id) on two stored
\* nodes raises NetworkNotValidError when source_id = sink_id, when the
\* source node is not flagged is_source, or when the sink node is not flagged
\* is_sink, and the call leaves every flow (the whole graph) as it was.
C14_NetworkNotValid ==
  [][\A a \in EditNodeIds, b \in EditNodeIds :
       (/\ pc = "idle"
        /\ a \in NodeIdSet(graph) /\ b \in NodeIdSet(graph)
        /\ (a = b \/ ~get_node(graph, a).is_source \/ ~get_node(graph, b).is_sink)
        /\ SolverCalculateMaxFlow(a, b)) =>
          /\ ret'.kind = "NetworkNotValidError"
          /\ pc' = "idle"
          /\ graph' = graph]_vars

C14_Witness ==
  /\ ret.kind = "NetworkNotValidError"
  /\ get_source_nodes(graph) # <<>> /\ get_sink_nodes(graph) # <<>>
  /\ \E i \in DOMAIN graph.edges : graph.edges[i].flow > 0

\* C15: FordFulkerson.calculate_max_flow(source_id, sink_id) raises
\* NodeNotFoundError when source_id or sink_id is not a stored node.
C15_NodeNotFound ==
  [][\A a \in EditNodeIds, b \in EditNodeIds :
       (/\ pc = "idle"
        /\ (a \notin NodeIdSet(graph) \/ b \notin NodeIdSet(graph))
        /\ SolverCalculateMaxFlow(a, b)) =>
          ret'.kind = "NodeNotFoundError"]_vars

\* C16: get_node and remove_node on an id that is not a stored node raise
\* NodeNotFoundError; get_edge and remove_edge on an id that is not a stored
\* edge raise EdgeNotFoundError.
C16_NotFoundKinds ==
  [][/\ \A n \in GraphNodeArgs :
          (/\ call'.op \in {"get_node", "remove_node"}
           /\ n \notin NodeIdSet(graph)
           /\ (GetNode(n) \/ (n \in NodeIds /\ RemoveNode(n)))) =>
             call'.raises = "NodeNotFoundError"
     /\ \A e \in GraphEdgeArgs :
          (/\ call'.op \in {"get_edge", "remove_edge"}
           /\ e \notin EdgeIdSet(graph)
           /\ (GetEdge(e) \/ RemoveEdge(e))) =>
             call'.raises = "EdgeNotFoundError"]_vars

\* C17: add_edge(id, start, end, capacity) raises NodeNotFoundError if start
\* or end is not a stored node and InvalidInputError if start = end, if id is
\* a stored edge id or if capacity < 0 (where both hold, either of the two).
C17_AddEdgeErrors ==
  [][\A e \in GraphEdgeArgs, a \in NodeIds, b \in NodeIds, c \in GraphCaps :
       (call'.op = "add_edge" /\ AddEdge(e, a, b, c)) =>
          LET not_found == a \notin NodeIdSet(graph) \/ b \notin NodeIdSet(graph)
              invalid == a = b \/ e \in EdgeIdSet(graph) \/ c < 0
          IN (not_found \/ invalid) =>
                call'.raises \in ((IF not_found THEN {"NodeNotFoundError"} ELSE {})
                                    \cup (IF invalid THEN {"InvalidInputError"} ELSE {}))]_vars

\* C18: an add_edge(id, start, end, capacity) that returns has stored the
\* edge with that capacity and flow 0 after the edges there were, has put id
\* last in the adjacency list of start, and has changed no other edge, no
\* node and no other adjacency list.
C18_AddEdge ==
  [][\A e \in GraphEdgeArgs, a \in NodeIds, b \in NodeIds, c \in GraphCaps :
       (call'.op = "add_edge" /\ call'.raises = "none" /\ AddEdge(e, a, b, c)) =>
          /\ graph'.edges = Append(graph.edges, [id |-> e, start_node_id |-> a, end_node_id |-> b,
                                                  capacity |-> c, flow |-> 0])
          /\ graph'.nodes = graph.nodes
          /\ DOMAIN graph'.adjacency_list = DOMAIN graph.adjacency_list
          /\ \A m \in DOMAIN graph.adjacency_list :
               graph'.adjacency_list[m] =
                 IF m = a THEN Append(graph.adjacency_list[m], e) ELSE graph.adjacency_list[m]]_vars

C18_Witness ==
  /\ call.op = "add_edge" /\ call.raises = "none"
  /\ \E n \in DOMAIN graph.adjacency_list : Len(graph.adjacency_list[n]) = 2

\* C19: add_node(id) raises InvalidInputError when id is a stored node or is
\* empty, and changes nothing; otherwise it stores the node after the nodes
\* there were, gives it an empty adjacency list and returns it; the ids of
\* the stored nodes are distinct and none is empty in every state.
C19_AddNode ==
  /\ [](/\ \A i \in DOMAIN graph.nodes, j \in DOMAIN graph.nodes :
              graph.nodes[i].id = graph.nodes[j].id => i = j
         /\ "" \notin NodeIdSet(graph))
  /\ [][\A n \in GraphNodeArgs :
          (call'.op = "add_node" /\ AddNode(n, FALSE, FALSE)) =>
             IF n \in NodeIdSet(graph) \/ n = ""
             THEN call'.raises = "InvalidInputError" /\ graph' = graph
             ELSE /\ call'.raises = "none"
                  /\ graph'.nodes = Append(graph.nodes, [id |-> n, is_source |-> FALSE, is_sink |-> FALSE])
                  /\ graph'.adjacency_list[n] = <<>>
                  /\ graph'.edges = graph.edges
                  /\ call'.result = graph'.nodes[Len(graph'.nodes)]]_vars

C19_Witness ==
  /\ call.op = "add_node" /\ call.raises = "none"
  /\ Len(graph.nodes) = 3
  /\ graph.edges # <<>>

\* C20: Edge(id, start, end, capacity, flow) raises InvalidInputError when id
\* is empty, capacity < 0, flow < 0 or flow > capacity; otherwise it makes
\* the edge with these values, whose residual_capacity is capacity - flow.
C20_EdgeConstructor ==
  call.op = "Edge" =>
     LET id == call.args[1]
         capacity == call.args[4]
         flow == call.args[5]
     IN IF id = <<>> \/ capacity < 0 \/ flow < 0 \/ flow > capacity
        THEN call.raises = "InvalidInputError"
        ELSE /\ call.raises = "none"
             /\ call.result = [id |-> id, start_node_id |-> call.args[2], end_node_id |-> call.args[3],
                                capacity |-> capacity, flow |-> flow]
             /\ residual_capacity(call.result) = capacity - flow

C20_Witness ==
  /\ call.op = "Edge" /\ call.raises = "none"
  /\ 0 < call.result.flow /\ call.result.flow < call.result.capacity

\* C26: the residual graph that an iteration of the loop builds from the
\* graph has the nodes of the graph and as arcs exactly one forward arc
\* start -> end of capacity capacity - flow for every edge with
\* capacity - flow > 0 and one backward arc end -> start of capacity flow for
\* every edge with flow > 0: at most two arcs an edge, each of capacity > 0.
C26_ResidualGraph ==
  [][pc = "loop" =>
       /\ NodeIdSet(residual_graph') = NodeIdSet(graph)
       /\ Range(residual_graph'.edges) = ResidualArcs(graph)
       /\ Len(residual_graph'.edges) = Cardinality(ResidualArcs(graph))
       /\ Len(residual_graph'.edges) <= 2 * Len(graph.edges)
       /\ \A i \in DOMAIN residual_graph'.edges : residual_graph'.edges[i].capacity > 0]_vars

C26_Witness ==
  /\ Returned /\ stale_edits = 0
  /\ \E i \in DOMAIN residual_graph.edges : endswith(residual_graph.edges[i].id, "_forward")
  /\ \E i \in DOMAIN residual_graph.edges : endswith(residual_graph.edges[i].id, "_backward")

\* C27: an iteration of the loop leaves the nodes with their flags, the
\* edges with their capacities and the adjacency lists of the graph as they
\* were, and the iteration that finds no path, which builds the residual
\* graph and changes no flow after, leaves the whole graph as it was.
C27_BuildKeepsGraph ==
  [][pc = "loop" =>
       /\ graph'.nodes = graph.nodes
       /\ graph'.adjacency_list = graph.adjacency_list
       /\ DOMAIN graph'.edges = DOMAIN graph.edges
       /\ \A i \in DOMAIN graph.edges :
            [graph'.edges[i] EXCEPT !.flow = 0] = [graph.edges[i] EXCEPT !.flow = 0]
       /\ (pc' = "idle" /\ ret'.kind \in {"max_flow", "max_flow_cut"}) => graph' = graph]_vars

C27_Witness ==
  /\ Returned /\ stale_edits = 0
  /\ Cardinality({i \in DOMAIN graph.edges : graph.edges[i].flow > 0}) = 2
  /\ residual_graph.edges # <<>>

\* C30: in every iteration of the loop that finds a path, the bottleneck is
\* the least capacity of the residual arcs of the path and is > 0, the
\* iteration adds it to the flow of the edge each forward arc of the path was
\* made from, takes it from the flow of the edge each backward arc was made
\* from, and changes no other flow, whatever the ids of the edges are.
C30_Augmentation ==
  [][pc = "loop" =>
       \A rg \in {_build_residual_graph(Graph, graph)} :
       \A result \in {_find_augmenting_path(rg, source_id, sink_id)} :
          ~result.none =>
             /\ result.min_capacity = LeastCapacity(rg, result.path)
             /\ result.min_capacity > 0
             /\ pc' = "loop"
             /\ DOMAIN graph'.edges = DOMAIN graph.edges
             /\ \A i \in DOMAIN graph.edges :
                  graph'.edges[i] =
                    [graph.edges[i] EXCEPT
                       !.flow = Clamp(@ + FlowChange(graph.edges[i], result.path, result.min_capacity))]]_vars

\* C29: get_edges_from_node(id) returns the stored edges that start at id in
\* the order they were added (the edges removed since are not among them, the
\* others keep their order), and returns the empty sequence, raising nothing,
\* for an id that is not a stored node.
C29_GetEdgesFromNode ==
  call.op = "get_edges_from_node" =>
     /\ call.raises = "none"
     /\ call.result = IF call.args[1] \notin NodeIdSet(graph) THEN <<>>
                      ELSE SelectSeq(graph.edges, LAMBDA e : e.start_node_id = call.args[1])

C29_Witness ==
  /\ call.op = "get_edges_from_node"
  /\ Len(call.result) = 2
  /\ call.result[1].id = <<"y">>

\* C23: validate_network() raises nothing, leaves the network as it was, and
\* returns true exactly when one node is flagged is_source, one node is
\* flagged is_sink and the stored edges, whatever their capacity and flow,
\* lead from the source to the sink.
C23_ValidateNetwork ==
  /\ [](call.op = "validate_network" =>
          /\ call.raises = "none"
          /\ call.result =
               (/\ Cardinality(Sources(graph)) = 1
                /\ Cardinality(Sinks(graph)) = 1
                /\ \A src \in Sources(graph), snk \in Sinks(graph) :
                     snk.id \in ReachFrom(graph, {src.id})))
  /\ [][ValidateNetwork => graph' = graph]_vars

C23_Witness ==
  /\ call.op = "validate_network" /\ call.result = TRUE
  /\ Len(graph.edges) = 2
  /\ \A i \in DOMAIN graph.edges : graph.edges[i].capacity = 0
  /\ {n.id : n \in Sources(graph)} = {"s"} /\ {n.id : n \in Sinks(graph)} = {"t"}
  /\ \A i \in DOMAIN graph.edges :
       ~(graph.edges[i].start_node_id = "s" /\ graph.edges[i].end_node_id = "t")

\* C24: validate_network() returns false for every network in which a node
\* is flagged both is_source and is_sink, also when this node is the only
\* source and the only sink.
C24_BothRolesRejected ==
  (call.op = "validate_network" /\ Sources(graph) \cap Sinks(graph) # {}) => call.result = FALSE

\* C21: update_edge_capacity(id, new_capacity) on a stored edge raises
\* InvalidInputError and leaves the graph as it was when new_capacity is less
\* than the flow of the edge; otherwise it raises nothing, sets the capacity of
\* the edge to new_capacity and leaves its flow, every other edge and the nodes
\* as they were, and the capacity it sets is >= 0 and >= the flow.
C21_UpdateEdgeCapacity ==
  [][(pc = "idle" /\ call'.op = "update_edge_capacity" /\ call'.args[1] \in EdgeIdSet(graph))
       => LET id == call'.args[1]
              new_capacity == call'.args[2]
          IN IF new_capacity < get_edge(graph, id).flow
             THEN call'.raises = "InvalidInputError" /\ graph' = graph
             ELSE /\ call'.raises = "none"
                  /\ graph' = [graph EXCEPT !.edges =
                                 [i \in DOMAIN graph.edges |->
                                    IF graph.edges[i].id = id
                                    THEN [graph.edges[i] EXCEPT !.capacity = new_capacity]
                                    ELSE graph.edges[i]]]
                  /\ get_edge(graph', id).capacity >= 0
                  /\ get_edge(graph', id).capacity >= get_edge(graph', id).flow]_vars

\* C22: a set_node_as_source(id) call on a stored node leaves it with
\* is_source and without is_sink, a set_node_as_sink(id) call leaves it with
\* is_sink and without is_source, and both leave every other node as it was,
\* so that no setter call makes a node carry both roles.
C22_RoleSetters ==
  [][(pc = "idle" /\ call'.op \in {"set_node_as_source", "set_node_as_sink"}
                 /\ call'.raises = "none")
       => LET id == call'.args[1]
          IN /\ get_node(graph', id).is_source = (call'.op = "set_node_as_source")
             /\ get_node(graph', id).is_sink = (call'.op = "set_node_as_sink")
             /\ Len(graph'.nodes) = Len(graph.nodes)
             /\ \A i \in DOMAIN graph.nodes :
                  graph.nodes[i].id # id => graph'.nodes[i] = graph.nodes[i]
             /\ BothRoles(graph') \subseteq BothRoles(graph)]_vars

\* a set_node_as_source call has just returned on a node that carried both roles
C22_Witness ==
  /\ call.op = "set_node_as_source"
  /\ call.raises = "none"
  /\ call.result.is_source /\ call.result.is_sink
  /\ get_node(graph, call.args[1]).is_source
  /\ ~get_node(graph, call.args[1]).is_sink

\* C25: get_source_node() raises NetworkNotValidError when no node is a source
\* and otherwise returns the first source in the insertion order of the nodes,
\* also when several nodes are sources; get_sink_node() does the same with the
\* sinks; and FlowNetwork.calculate_max_flow() on a network with no source or
\* no sink raises NetworkNotValidError and leaves the graph, so every flow,
\* as it was.
C25_SourceAndSink ==
  /\ [](call.op = "get_source_node"
          => IF Sources(graph) = {} THEN call.raises = "NetworkNotValidError"
             ELSE /\ call.raises = "none"
                  /\ IsFirstWith(graph, call.result, LAMBDA n : n.is_source))
  /\ [](call.op = "get_sink_node"
          => IF Sinks(graph) = {} THEN call.raises = "NetworkNotValidError"
             ELSE /\ call.raises = "none"
                  /\ IsFirstWith(graph, call.result, LAMBDA n : n.is_sink))
  /\ [][(pc = "idle" /\ call'.op = "calculate_max_flow"
                     /\ (Sources(graph) = {} \/ Sinks(graph) = {}))
           => /\ call'.raises = "NetworkNotValidError"
              /\ graph' = graph
              /\ pc' = "idle"]_vars

\* get_source_node has just returned the first of several sources, which is
\* not the last of them, on a network that carries flow
C25_Witness ==
  /\ call.op = "get_source_node"
  /\ call.raises = "none"
  /\ Cardinality(Sources(graph)) >= 2
  /\ SomeFlow(graph)

\* C28: a step of add_node, add_edge, remove_node, remove_edge,
\* update_edge_capacity, set_node_as_source, set_node_as_sink,
\* validate_network or get_min_cut leaves the flow of every edge that is
\* stored before and after it unchanged.
C28_FlowsOnlyByRuns ==
  [][FlowsKept \/ ~(pc = "idle" /\ EditOrRead)]_vars

\* a call has changed the graph since the last run and an edge still carries
\* the flow the run gave it
C28_Witness ==
  /\ pc = "idle"
  /\ stale_edits >= 1
  /\ SomeFlow(graph)

C32_SearchOnCurrentFlows ==
  /\ [][pc = "loop" => residual_graph' = _build_residual_graph(Graph, graph)]_vars
  /\ [][(pc = "loop" /\ pc' = "loop") =>
          LET result == _find_augmenting_path(_build_residual_graph(Graph, graph),
                                              source_id, sink_id)
          IN /\ ~result.none
             /\ graph' = _update_flows(graph, result.path, result.min_capacity).graph]_vars
  /\ [](ret.kind = "max_flow_cut" =>
          /\ residual_graph = _build_residual_graph(Graph, graph)
          /\ ret.S = ReachFrom(residual_graph, {ret.source})
          /\ Range(ret.T) = NodeIdSet(graph) \ ret.S)

\* FlowNetwork.calculate_max_flow has returned after two augmentations
C32_Witness ==
  /\ ret.kind = "max_flow_cut"
  /\ ret.augmentations >= 2
  /\ \E id \in EdgeIdSet(residual_graph) : endswith(id, "_backward")

\* C33: in a run started with all flows 0, every augmentation makes the
\* running total greater (up to the value at which the model stops counting),
\* the total never exceeds the sum of the capacities of the edges that start
\* at the source, and so neither does the value returned.
C33_TotalBounded ==
  /\ [][(pc = "loop" /\ pc' = "loop" /\ from_zero)
          => (max_flow' > max_flow \/ max_flow = FlowCeil)]_vars
  /\ []((pc = "loop" /\ from_zero) => max_flow <= SourceCapacity(graph, source_id))
  /\ []((Returned /\ ret.from_zero) => ret.value <= SourceCapacity(graph, ret.source))

\* C34: a run started with all flows 0 makes at most V * E augmentations,
\* V the number of nodes and E the number of edges of the graph.
C34_AugmentationBound ==
  /\ (pc = "loop" /\ from_zero) => run.augmentations <= Len(graph.nodes) * Len(graph.edges)
  /\ (Returned /\ ret.from_zero) => ret.augmentations <= Len(graph.nodes) * Len(graph.edges)

C36_ValueIsNetFlow ==
  (Returned /\ ret.from_zero) =>
     /\ ret.value = Outflow(graph, ret.source) - Inflow(graph, ret.source)
     /\ ret.value = Inflow(graph, ret.sink) - Outflow(graph, ret.sink)

\* C37: an augmentation (an iteration whose _update_flows returns) leaves,
\* for every node other than the source and the sink, the flow on the edges
\* that end at it minus the flow on the edges that start at it as it was.
C37_AugmentationKeepsBalance ==
  [][(pc = "loop" /\ pc' = "loop") =>
       \A n \in NodeIdSet(graph) \ {source_id, sink_id} :
          Inflow(graph', n) - Outflow(graph', n) = Inflow(graph, n) - Outflow(graph, n)]_vars

\* C38: in a run, the path an iteration finds never has fewer arcs than the
\* path the iteration before it found.
C38_PathsNeverShorter ==
  [][(pc = "loop" /\ pc' = "loop" /\ run.path_len > 0)
       => run'.path_len >= run.path_len]_vars

\* C39: a role setter that returns changes the flags of the node it names
\* and nothing else, so the role stays on every other node that has it; and
\* on a network where several nodes are sources or several are sinks (and
\* none is both) FlowNetwork.calculate_max_flow() raises nothing, runs from the
\* first source to the first sink in insertion order, and from all-zero flows
\* returns the maximum flow between these two.
C39_SeveralSourcesOrSinks ==
  /\ [][(pc = "idle" /\ call'.op \in {"set_node_as_source", "set_node_as_sink"}
                     /\ call'.raises = "none")
          => /\ graph'.edges = graph.edges
             /\ graph'.adjacency_list = graph.adjacency_list
             /\ DOMAIN graph'.nodes = DOMAIN graph.nodes
             /\ \A i \in DOMAIN graph.nodes :
                  /\ graph'.nodes[i].id = graph.nodes[i].id
                  /\ graph.nodes[i].id # call'.args[1] => graph'.nodes[i] = graph.nodes[i]]_vars
  /\ [][(pc = "idle" /\ call'.op = "calculate_max_flow" /\ SeveralOfARole(graph))
          => /\ call'.raises = "none"
             /\ pc' = "loop"
             /\ IsFirstWith(graph, get_node(graph, source_id'), LAMBDA n : n.is_source)
             /\ IsFirstWith(graph, get_node(graph, sink_id'), LAMBDA n : n.is_sink)]_vars
  /\ []((ret.kind = "max_flow_cut" /\ SeveralOfARole(graph))
          => /\ IsFirstWith(graph, get_node(graph, ret.source), LAMBDA n : n.is_source)
             /\ IsFirstWith(graph, get_node(graph, ret.sink), LAMBDA n : n.is_sink)
             /\ ret.from_zero => ret.value = MinCutValue(graph, ret.source, ret.sink))

\* FlowNetwork.calculate_max_flow has returned a flow on a network with two sinks
C39_Witness ==
  /\ ret.kind = "max_flow_cut"
  /\ ret.value > 0
  /\ Cardinality(Sinks(graph)) >= 2
  /\ BothRoles(graph) = {}

\* C40: get_min_cut(source_id) leaves the residual graph and the graph as
\* they are; its S is the set of nodes that the arcs of the residual graph
\* as last built reach from source_id, and its T lists the nodes now stored
\* that are not in S, whatever was edited since the build.
C40_CutOfStaleResidual ==
  /\ [][(pc = "idle" /\ call'.op = "get_min_cut")
          => (residual_graph' = residual_graph /\ graph' = graph)]_vars
  /\ [](call.op = "get_min_cut" =>
          /\ call.result.S = ReachFrom(residual_graph, {call.args[1]})
          /\ call.result.T =
               [i \in DOMAIN SelectSeq(graph.nodes, LAMBDA n : n.id \notin call.result.S) |->
                  SelectSeq(graph.nodes, LAMBDA n : n.id \notin call.result.S)[i].id])

\* get_min_cut from a stored source has returned an S that holds a removed
\* node: S and T do not partition the nodes stored
C40_Witness ==
  /\ call.op = "get_min_cut"
  /\ call.args[1] \in NodeIdSet(graph)
  /\ ~(call.result.S \subseteq NodeIdSet(graph))
  /\ call.result.S \cup Range(call.result.T) # NodeIdSet(graph)

====
